---- MODULE Spec2Model ----
(***************************************************************************)
(* A model of the feature-extraction pipeline and training loop of         *)
(* SoundEventDetection:                                                    *)
(*   src/dataset/spectogram_features/preprocess.py                         *)
(*       read_multichannel_audio, multichannel_stft,                       *)
(*       calculate_scalar_of_tensor, preprocess_data                       *)
(*   src/main.py                                                           *)
(*       train, eval                                                       *)
(*                                                                         *)
(* Each function has a specification of its own (SpecAudio, SpecStft,      *)
(* SpecStats, SpecPre / LiveSpecPre, SpecTrain).  The variables of the     *)
(* other functions stay at their idle values in it.                        *)
(*                                                                         *)
(* Sample values are exact rationals <<numerator, denominator>>: np.mean   *)
(* divides, and the claims are about the arithmetic, not about rounding.   *)
(* np.std is kept as the variance under a root, [sqrt |-> variance].       *)
(***************************************************************************)
EXTENDS Integers, Sequences, FiniteSets, Bags, TLC

VARIABLES
    \* read_multichannel_audio
    audio_file,          \* what soundfile.read finds at audio_path
    audio_channels,      \* cfg.audio_channels
    target_fs,           \* the target_fs argument (None or a rate)
    multichannel_audio,  \* the returned array
    normalized_audio,    \* the array after lines 25-33, before resampling
    resample_calls,      \* how many times librosa.resample was called
    pcAudio,
    \* multichannel_stft
    num_samples,         \* multichannel_signal.shape[0]
    hop_size,            \* cfg.hop_size
    NFFT,                \* cfg.NFFT
    frame_size,          \* cfg.frame_size
    stft_frames,         \* frames per channel of the returned array
    pcStft,
    \* calculate_scalar_of_tensor and the concatenation before it
    feature_list,        \* the list all_features of preprocess_data
    x,                   \* the tensor passed to calculate_scalar_of_tensor
    scalar,              \* its result (mean, std)
    pcStats,
    \* preprocess_data
    audio_path_and_labels,
    store,               \* the files under output_dir and output_mean_std_file
    store0,              \* the files as they were before the first run
    all_features,
    idx,                 \* position of the for loop in audio_path_and_labels
    written,             \* the keys the current run has written
    runs,                \* calls of preprocess_data so far
    data_sample,         \* the entry random.choice picked for data_sample.png
    pcPre,
    \* train
    num_steps,
    gen_len,             \* batches generate_train yields
    val_len,             \* batches generate_validate yields
    ckpt_dir_exists,     \* outputs_dir/checkpoints exists already
    iterations,
    optimizer_steps,
    lr,
    checkpoints,
    eval_calls,
    train_error,
    pcTrain

audioVars == <<audio_file, audio_channels, target_fs, multichannel_audio,
               normalized_audio, resample_calls, pcAudio>>
stftVars  == <<num_samples, hop_size, NFFT, frame_size, stft_frames, pcStft>>
statsVars == <<feature_list, x, scalar, pcStats>>
preVars   == <<audio_path_and_labels, store, store0, all_features, idx, written,
               runs, data_sample, pcPre>>
trainVars == <<num_steps, gen_len, val_len, ckpt_dir_exists, iterations,
               optimizer_steps, lr, checkpoints, eval_calls, train_error, pcTrain>>
vars == <<audioVars, stftVars, statsVars, preVars, trainVars>>

None == "None"

(***************************************************************************)
(* Exact rational arithmetic.                                              *)
(***************************************************************************)
Abs(a) == IF a < 0 THEN -a ELSE a

RECURSIVE GCD(_, _)
GCD(a, b) == IF b = 0 THEN a ELSE GCD(b, a % b)

\* n / d in lowest terms, d # 0 (n and d are each evaluated once)
Rat(n, d) ==
    CHOOSE r \in {<<(IF dd < 0 THEN -nn ELSE nn) \div GCD(Abs(nn), Abs(dd)),
                    Abs(dd) \div GCD(Abs(nn), Abs(dd))>> : nn \in {n}, dd \in {d}} : TRUE

IntR(v) == <<v, 1>>
RAdd(p, q) == Rat(p[1] * q[2] + q[1] * p[2], p[2] * q[2])
RMul(p, q) == Rat(p[1] * q[1], p[2] * q[2])
RDivInt(p, k) == Rat(p[1], p[2] * k)

RECURSIVE RSumTo(_, _)
RSumTo(s, k) == IF k = 0 THEN IntR(0) ELSE RAdd(RSumTo(s, k - 1), s[k])

\* the sum of a sequence of rationals
RSum(s) == RSumTo(s, Len(s))

CeilDiv(a, b) == (a + b - 1) \div b

\* the sum of a function of natural numbers: the size of the bag that holds
\* each argument f[a] + 1 times, less one for each argument
NatSum(f) == BagCardinality([a \in DOMAIN f |-> f[a] + 1]) - Cardinality(DOMAIN f)

(***************************************************************************)
(* Inputs of read_multichannel_audio.                                      *)
(***************************************************************************)
MaxSamples == 2
MaxChannels == 3
SampleValues == {0, 1}
SampleRates == {1, 2}

AudioFiles ==
    UNION {[sample_rate : SampleRates,
            channels : {k},
            frames : [1..n -> [1..k -> SampleValues]]]
           : n \in 0..MaxSamples, k \in 1..MaxChannels}

(***************************************************************************)
(* numpy arrays: [shape |-> <<n>>, data |-> a sequence of n values] or     *)
(* [shape |-> <<n, c>>, data |-> a sequence of n rows of c values].        *)
(***************************************************************************)
\* soundfile.read: a mono file comes back 1-D, any other [frames, channels].
SoundfileRead(file) ==
    LET n == Len(file.frames)
    IN  IF file.channels = 1
        THEN [shape |-> <<n>>, data |-> [i \in 1..n |-> IntR(file.frames[i][1])]]
        ELSE [shape |-> <<n, file.channels>>,
              data |-> [i \in 1..n |->
                          [c \in 1..file.channels |-> IntR(file.frames[i][c])]]]

\* a.reshape(-1, 1) of a 1-D array
ReshapeColumn(a) ==
    [shape |-> <<a.shape[1], 1>>,
     data |-> [i \in 1..a.shape[1] |-> <<a.data[i]>>]]

\* a[:, 0] where the code takes a.mean(1): the first channel stands for all
MeanAxis1FirstChannel(a) ==
    [shape |-> <<a.shape[1]>>, data |-> [i \in 1..a.shape[1] |-> a.data[i][1]]]

\* a.mean(1) of a 2-D array: the mean of each row, 1-D
MeanAxis1(a) ==
    [shape |-> <<a.shape[1]>>,
     data |-> [i \in 1..a.shape[1] |-> RDivInt(RSum(a.data[i]), a.shape[2])]]

\* np.repeat(a, repeats, axis=1) of an [n, 1] array
RepeatAxis1(a, repeats) ==
    [shape |-> <<a.shape[1], a.shape[2] * repeats>>,
     data |-> [i \in 1..a.shape[1] |->
                 [c \in 1..(a.shape[2] * repeats) |->
                     a.data[i][((c - 1) \div repeats) + 1]]]]

\* a[:, :k]
FirstColumns(a, k) ==
    LET kk == IF k < a.shape[2] THEN k ELSE a.shape[2]
    IN  [shape |-> <<a.shape[1], kk>>,
         data |-> [i \in 1..a.shape[1] |-> [c \in 1..kk |-> a.data[i][c]]]]

\* a[:, i]
Column(a, i) == [j \in 1..a.shape[1] |-> a.data[j][i]]

\* lines 25-31 without the truncation of lines 32-33
NormalizeChannelsNoTruncate(read, cfg_channels) ==
    LET a == IF Len(read.shape) = 1 THEN ReshapeColumn(read) ELSE read
    IN  IF a.shape[2] < cfg_channels
        THEN RepeatAxis1(ReshapeColumn(MeanAxis1(a)), cfg_channels)
        ELSE IF cfg_channels = 1
        THEN ReshapeColumn(MeanAxis1(a))
        ELSE a

\* lines 25-33: the channel count is brought to cfg.audio_channels
NormalizeChannels(read, cfg_channels) ==
    LET a == IF Len(read.shape) = 1 THEN ReshapeColumn(read) ELSE read
    IN  IF a.shape[2] < cfg_channels
        THEN RepeatAxis1(ReshapeColumn(MeanAxis1(a)), cfg_channels)
        ELSE IF cfg_channels = 1
        THEN ReshapeColumn(MeanAxis1(a))
        ELSE IF a.shape[2] > cfg_channels
        THEN FirstColumns(a, cfg_channels)
        ELSE a

\* target_fs is None, or <<rate>>
NoRate == <<>>

\* line 35 without the comparison of the rates
NeedsResampleAnyTarget(fs, sample_rate) == fs # NoRate

\* line 35: whether the resampling branch is taken
NeedsResample(fs, sample_rate) == fs # NoRate /\ sample_rate # fs[1]

\* librosa.resample(y, orig_sr, target_sr): ceil(len * target_sr / orig_sr)
\* samples.  The band-limited interpolation is kept as sample-and-hold: the
\* values change with the rate, the count is librosa's.
Resample(y, orig_sr, target_sr) ==
    LET m == CeilDiv(Len(y) * target_sr, orig_sr)
    IN  [j \in 1..m |-> y[(((j - 1) * orig_sr) \div target_sr) + 1]]

\* lines 39-41: np.array([resample(a[:, i]) for i in range(channels_num)]).T
ResampleChannels(a, orig_sr, target_sr) ==
    LET channels_num == a.shape[2]
        cols == [i \in 1..channels_num |-> Resample(Column(a, i), orig_sr, target_sr)]
        m == Len(cols[1])
    IN  [shape |-> <<m, channels_num>>,
         data |-> [j \in 1..m |-> [i \in 1..channels_num |-> cols[i][j]]]]

\* read_multichannel_audio(audio_path, target_fs): the ways the call can end.
\* What librosa.resample does with a signal of no samples depends on the
\* resampler behind it: it raises, or it returns no samples.
ReadMultichannelAudioResults(file, cfg_channels, fs) ==
    LET a == NormalizeChannels(SoundfileRead(file), cfg_channels)
        resampled == [outcome |-> "returned", normalized |-> a,
                      audio |-> ResampleChannels(a, file.sample_rate, fs[1]),
                      calls |-> a.shape[2]]
    IN  IF NeedsResample(fs, file.sample_rate)
        THEN IF a.shape[1] = 0
             THEN {[outcome |-> "raised", normalized |-> a, audio |-> None,
                    calls |-> 1],
                   resampled}
             ELSE {resampled}
        ELSE {[outcome |-> "returned", normalized |-> a, audio |-> a, calls |-> 0]}

IdleAudio ==
    /\ audio_file = None /\ audio_channels = 0 /\ target_fs = NoRate
    /\ multichannel_audio = None /\ normalized_audio = None
    /\ resample_calls = 0 /\ pcAudio = "idle"

InitAudioVars ==
    /\ audio_file \in AudioFiles
    /\ audio_channels \in 1..MaxChannels
    /\ target_fs \in {NoRate} \cup {<<r>> : r \in SampleRates}
    /\ multichannel_audio = None
    /\ normalized_audio = None
    /\ resample_calls = 0
    /\ pcAudio = "call"

read_multichannel_audio ==
    /\ pcAudio = "call"
    /\ \E r \in ReadMultichannelAudioResults(audio_file, audio_channels, target_fs) :
          /\ multichannel_audio' = r.audio
          /\ normalized_audio' = r.normalized
          /\ resample_calls' = r.calls
          /\ pcAudio' = r.outcome
    /\ UNCHANGED <<audio_file, audio_channels, target_fs>>
    /\ UNCHANGED <<stftVars, statsVars, preVars, trainVars>>

(***************************************************************************)
(* multichannel_stft: the number of frames librosa.core.stft returns.      *)
(***************************************************************************)
MaxSignal == 8
MaxHop == 3
MaxNFFT == 5

\* center=False
CenterOff == FALSE

\* line 56: center=True
Center == TRUE

\* librosa pads the signal by n_fft // 2 on both sides when center is set
\* (pad_mode='reflect' decides the values, not the count).
PaddedLength(n, n_fft) == IF Center THEN n + 2 * (n_fft \div 2) ELSE n

\* librosa.util.frame: a frame starts every hop_length samples and holds
\* n_fft samples of the padded signal.
FrameStarts(padded, n_fft, hop) ==
    {s \in 0..padded : s % hop = 0 /\ s + n_fft <= padded}

\* librosa.core.stft on one channel: np.pad cannot reflect an empty signal,
\* and a signal shorter than n_fft cannot be framed.
StftResult(n, n_fft, hop) ==
    LET padded == PaddedLength(n, n_fft)
        starts == FrameStarts(padded, n_fft, hop)
    IN  IF n = 0 \/ starts = {}
        THEN [outcome |-> "ValueError", frames |-> 0]
        ELSE [outcome |-> "returned", frames |-> Cardinality(starts)]

IdleStft ==
    /\ num_samples = 0 /\ hop_size = 0 /\ NFFT = 0 /\ frame_size = 0
    /\ stft_frames = 0 /\ pcStft = "idle"

InitStftVars ==
    /\ num_samples \in 0..MaxSignal
    /\ hop_size \in 1..MaxHop
    /\ NFFT \in 2..MaxNFFT
    /\ frame_size \in 1..NFFT
    /\ stft_frames = 0
    /\ pcStft = "call"

multichannel_stft ==
    /\ pcStft = "call"
    /\ LET r == StftResult(num_samples, NFFT, hop_size)
       IN  /\ stft_frames' = r.frames
           /\ pcStft' = r.outcome
    /\ UNCHANGED <<num_samples, hop_size, NFFT, frame_size>>
    /\ UNCHANGED <<audioVars, statsVars, preVars, trainVars>>

(***************************************************************************)
(* Tensors: [shape |-> <<d1, ..., dk>>, val |-> a function of the index    *)
(* tuples].  Axes are numbered from 0 as in numpy.                         *)
(***************************************************************************)
Indices(shape) ==
    CASE Len(shape) = 0 -> {<<>>}
      [] Len(shape) = 1 -> {<<i>> : i \in 1..shape[1]}
      [] Len(shape) = 2 -> {<<i, j>> : i \in 1..shape[1], j \in 1..shape[2]}
      [] Len(shape) = 3 ->
            {<<i, j, k>> : i \in 1..shape[1], j \in 1..shape[2], k \in 1..shape[3]}

RECURSIVE DropAxesFrom(_, _, _)
DropAxesFrom(t, axes, i) ==
    IF i > Len(t) THEN <<>>
    ELSE (IF (i - 1) \in axes THEN <<>> ELSE <<t[i]>>) \o DropAxesFrom(t, axes, i + 1)

\* what is left of a shape or an index when the axes are reduced away
DropAxes(t, axes) == DropAxesFrom(t, axes, 1)

\* the values of the elements of t that are reduced into o, by index
GroupValues(t, axes, o) ==
    [i \in {j \in Indices(t.shape) : DropAxes(j, axes) = o} |-> t.val[i]]

\* sum / count of a group of values
MeanOfValues(v) == Rat(NatSum(v), Cardinality(DOMAIN v))

\* the mean of abs(v - mean) ** 2.  With mean = sum / n each deviation is
\* (n * v[i] - sum) / n, so the squares add up over the denominator n ** 2.
VarianceOfValues(v) ==
    CHOOSE r \in
        {Rat(NatSum([i \in DOMAIN v |-> (n * v[i] - sum) * (n * v[i] - sum)]),
             n * n * n) : n \in {Cardinality(DOMAIN v)}, sum \in {NatSum(v)}} : TRUE

\* the mean of the elements of t reduced into o
MeanAt(t, axes, o) ==
    CHOOSE r \in {MeanOfValues(v) : v \in {GroupValues(t, axes, o)}} : TRUE

\* the variance of the elements of t reduced into o
VarianceAt(t, axes, o) ==
    CHOOSE r \in {VarianceOfValues(v) : v \in {GroupValues(t, axes, o)}} : TRUE

\* np.mean(t, axis=axes)
NpMean(t, axes) ==
    LET out == DropAxes(t.shape, axes)
    IN  [shape |-> out, val |-> [o \in Indices(out) |-> MeanAt(t, axes, o)]]

\* np.std(t, axis=axes): sqrt(mean(abs(t - mean) ** 2)), the root kept symbolic
NpStd(t, axes) ==
    LET out == DropAxes(t.shape, axes)
    IN  [shape |-> out,
         val |-> [o \in Indices(out) |-> [sqrt |-> VarianceAt(t, axes, o)]]]

\* axis = 1 for a 3-D array: the time axis alone
ReductionAxesTimeOnly(ndim) == IF ndim = 2 THEN {0} ELSE {1}

\* lines 74-77: the axes calculate_scalar_of_tensor reduces over
ReductionAxes(ndim) == IF ndim = 2 THEN {0} ELSE {0, 1}

\* calculate_scalar_of_tensor(x), for x.ndim 2 or 3 (x is evaluated once)
CalculateScalarOfTensor(t) ==
    CHOOSE r \in {[mean |-> NpMean(xx, ReductionAxes(Len(xx.shape))),
                   std |-> NpStd(xx, ReductionAxes(Len(xx.shape)))] : xx \in {t}} : TRUE

\* the frames of the files before file j of the list
FramesBefore(list, j) == NatSum([i \in 1..(j - 1) |-> list[i].shape[2]])

\* the file of the list that frame f of the concatenation comes from
FileOfFrame(list, f) ==
    CHOOSE j \in 1..Len(list) :
        FramesBefore(list, j) < f /\ f <= FramesBefore(list, j) + list[j].shape[2]

\* the last file's features where the code concatenates all of them
ConcatenateKeepLast(list) == list[Len(list)]

\* line 102: np.concatenate(all_features, axis=1), all_features not empty and
\* of one channel count and one mel bin count
ConcatenateAxis1(list) ==
    LET shape == <<list[1].shape[1], FramesBefore(list, Len(list) + 1),
                   list[1].shape[3]>>
    IN  [shape |-> shape,
         val |-> [i \in Indices(shape) |->
                    LET j == FileOfFrame(list, i[2])
                    IN  list[j].val[<<i[1], i[2] - FramesBefore(list, j), i[3]>>]]]

MaxStatFiles == 2
FrameCounts == {1, 2}
FeatureValues == {0, 1}
\* (channels, mel bins) of the 3-D features
FeatureLayouts == {<<2, 1>>, <<1, 2>>}

Tensors(shape) == [shape : {shape}, val : [Indices(shape) -> FeatureValues]]

FeaturesOfLayout(l) == UNION {Tensors(<<l[1], t, l[2]>>) : t \in FrameCounts}

FeatureLists ==
    UNION {[1..n -> FeaturesOfLayout(l)] : n \in 0..MaxStatFiles, l \in FeatureLayouts}

Matrices == UNION {Tensors(<<t, m>>) : t \in FrameCounts, m \in {1, 2}}

IdleStats ==
    feature_list = <<>> /\ x = None /\ scalar = None /\ pcStats = "idle"

\* Either preprocess_data is about to concatenate its features, or
\* calculate_scalar_of_tensor is called on a 2-D [time_frame, mel_bin] array.
InitStatsVars ==
    /\ scalar = None
    /\ \/ feature_list \in FeatureLists /\ x = None /\ pcStats = "concatenate"
       \/ feature_list = <<>> /\ x \in Matrices /\ pcStats = "scalar"

\* line 102
concatenate_features ==
    /\ pcStats = "concatenate"
    /\ IF feature_list = <<>>
       THEN x' = None /\ pcStats' = "ValueError"
       ELSE x' = ConcatenateAxis1(feature_list) /\ pcStats' = "scalar"
    /\ UNCHANGED <<feature_list, scalar>>
    /\ UNCHANGED <<audioVars, stftVars, preVars, trainVars>>

\* line 103
calculate_scalar_of_tensor ==
    /\ pcStats = "scalar"
    /\ scalar' = CalculateScalarOfTensor(x)
    /\ pcStats' = "done"
    /\ UNCHANGED <<feature_list, x>>
    /\ UNCHANGED <<audioVars, stftVars, preVars, trainVars>>

(***************************************************************************)
(* preprocess_data.                                                        *)
(***************************************************************************)
MaxFiles == 3
MaxRuns == 2

\* The (audio_path, start_times, end_times, audio_name) tuples a caller may
\* pass.  Two paths share the audio_name "x"; one path does not exist and one
\* holds no samples.
Entries ==
    {[audio_path |-> "a/x.wav", start_times |-> <<0>>, end_times |-> <<1>>,
      audio_name |-> "x"],
     [audio_path |-> "b/x.wav", start_times |-> <<2>>, end_times |-> <<3>>,
      audio_name |-> "x"],
     [audio_path |-> "a/y.wav", start_times |-> <<>>, end_times |-> <<>>,
      audio_name |-> "y"],
     [audio_path |-> "a/missing.wav", start_times |-> <<4>>, end_times |-> <<5>>,
      audio_name |-> "missing"],
     [audio_path |-> "a/empty.wav", start_times |-> <<>>, end_times |-> <<>>,
      audio_name |-> "empty"]}

\* lines 91-94 on one path: soundfile.read raises on a missing file, the
\* stft raises on a signal of no samples, and a readable file gives its own
\* [channel, time_frame, mel_bin] feature.
FeatureOutcome(audio_path) ==
    CASE audio_path = "a/missing.wav" -> "LibsndfileError"
      [] audio_path = "a/empty.wav" -> StftResult(0, 2, 1).outcome
      [] OTHER -> "ok"

FeatureOfPath(audio_path) ==
    CASE audio_path = "a/x.wav" ->
            [shape |-> <<2, 1, 1>>, val |-> (<<1, 1, 1>> :> 0 @@ <<2, 1, 1>> :> 1)]
      [] audio_path = "b/x.wav" ->
            [shape |-> <<2, 2, 1>>,
             val |-> (<<1, 1, 1>> :> 1 @@ <<1, 2, 1>> :> 3 @@
                      <<2, 1, 1>> :> 0 @@ <<2, 2, 1>> :> 2)]
      [] OTHER ->
            [shape |-> <<2, 1, 1>>, val |-> (<<1, 1, 1>> :> 2 @@ <<2, 1, 1>> :> 5)]

preprocess_mode == "logMel"

\* line 97: os.path.join(output_dir, audio_name + f"_{mode}_features_and_labels.pkl")
OutputPath(audio_name) ==
    <<"output_dir", audio_name, preprocess_mode, "features_and_labels.pkl">>

output_mean_std_file == <<"output_mean_std_file">>

StoreKeys == {OutputPath(e.audio_name) : e \in Entries} \cup {output_mean_std_file}

\* what the store holds at a key: no file, a file of an earlier preprocessing,
\* or a pickled dictionary
Absent == [file |-> "absent"]
Stale == [file |-> "stale"]

\* lines 99-100: the pickled dictionary
RecordOf(entry) ==
    [features |-> FeatureOfPath(entry.audio_path),
     start_times |-> entry.start_times,
     end_times |-> entry.end_times]

\* open(path, 'wb') and pickle.dump: the file is replaced
WriteRecord(s, key, rec) == [s EXCEPT ![key] = rec]

\* lines 102-103
StatisticsOf(features) == CalculateScalarOfTensor(ConcatenateAxis1(features))

\* lines 102-105 inside the loop body: the loop ends after the first tuple
AfterFileEarly(i, list) == IF i >= 1 \/ Len(list) = 0 THEN "stats" ELSE "loop"

\* line 90: the for loop goes on to the next tuple, or ends
AfterFile(i, list) == IF i >= Len(list) THEN "stats" ELSE "loop"

\* data_sample before random.choice has picked a tuple
NoSample ==
    [audio_path |-> None, start_times |-> <<>>, end_times |-> <<>>,
     audio_name |-> None]

IdlePre ==
    /\ audio_path_and_labels = <<>> /\ store = <<>> /\ store0 = <<>>
    /\ all_features = <<>> /\ idx = 0 /\ written = {} /\ runs = 0
    /\ data_sample = NoSample /\ pcPre = "off"

InitPreVars ==
    /\ audio_path_and_labels \in UNION {[1..n -> Entries] : n \in 0..MaxFiles}
    /\ store0 \in {[k \in StoreKeys |-> Absent], [k \in StoreKeys |-> Stale]}
    /\ store = store0
    /\ all_features = <<>>
    /\ idx = 0
    /\ written = {}
    /\ runs = 0
    /\ data_sample = NoSample
    /\ pcPre = "idle"

\* lines 85-88: a call of preprocess_data on the input list
preprocess_data_call ==
    /\ pcPre \in {"idle", "done", "raised", "stopped"}
    /\ runs < MaxRuns
    /\ runs' = runs + 1
    /\ all_features' = <<>>
    /\ written' = {}
    /\ idx' = 1
    /\ pcPre' = AfterFile(0, audio_path_and_labels)
    /\ UNCHANGED <<audio_path_and_labels, store, store0, data_sample>>
    /\ UNCHANGED <<audioVars, stftVars, statsVars, trainVars>>

\* lines 90-100: one turn of the for loop.  Nothing catches what lines 91-94
\* raise: the exception leaves preprocess_data.
process_file ==
    /\ pcPre = "loop"
    /\ LET entry == audio_path_and_labels[idx]
       IN  IF FeatureOutcome(entry.audio_path) # "ok"
           THEN /\ pcPre' = "raised"
                /\ UNCHANGED <<store, all_features, idx, written>>
           ELSE /\ all_features' = Append(all_features, FeatureOfPath(entry.audio_path))
                /\ store' = WriteRecord(store, OutputPath(entry.audio_name),
                                         RecordOf(entry))
                /\ written' = written \cup {OutputPath(entry.audio_name)}
                /\ idx' = idx + 1
                /\ pcPre' = AfterFile(idx, audio_path_and_labels)
    /\ UNCHANGED <<audio_path_and_labels, store0, runs, data_sample>>
    /\ UNCHANGED <<audioVars, stftVars, statsVars, trainVars>>

\* lines 102-105: np.concatenate raises ValueError on an empty list
write_statistics ==
    /\ pcPre = "stats"
    /\ IF all_features = <<>>
       THEN /\ pcPre' = "raised"
            /\ UNCHANGED <<store, written>>
       ELSE /\ store' = WriteRecord(store, output_mean_std_file,
                                     StatisticsOf(all_features))
            /\ written' = written \cup {output_mean_std_file}
            /\ pcPre' = "sample"
    /\ UNCHANGED <<audio_path_and_labels, store0, all_features, idx, runs,
                   data_sample>>
    /\ UNCHANGED <<audioVars, stftVars, statsVars, trainVars>>

\* lines 108-110: random.choice(audio_path_and_labels) and its plot
analyze_data_sample ==
    /\ pcPre = "sample"
    /\ \E i \in 1..Len(audio_path_and_labels) :
          data_sample' = audio_path_and_labels[i]
    /\ pcPre' = "done"
    /\ UNCHANGED <<audio_path_and_labels, store, store0, all_features, idx,
                   written, runs>>
    /\ UNCHANGED <<audioVars, stftVars, statsVars, trainVars>>

\* The process is stopped while preprocess_data runs (nothing in it handles
\* or defers a KeyboardInterrupt); it can be run again.
interrupt ==
    /\ pcPre \in {"loop", "stats", "sample"}
    /\ runs < MaxRuns
    /\ pcPre' = "stopped"
    /\ UNCHANGED <<audio_path_and_labels, store, store0, all_features, idx,
                   written, runs, data_sample>>
    /\ UNCHANGED <<audioVars, stftVars, statsVars, trainVars>>

(***************************************************************************)
(* train and eval.                                                         *)
(***************************************************************************)
MaxSteps == 12
\* line 81: iterations % 10
EvalEvery == 10
\* lines 84 and 88: iterations % 100
CheckpointEvery == 100

\* line 14: def eval(model, data_generator, num_samples, outputs_dir, iteration, device)
EvalParameters ==
    <<"model", "data_generator", "num_samples", "outputs_dir", "iteration", "device">>

\* line 82: eval(model, data_generator, 10, outputs_dir=..., iterations=..., device=...)
EvalCallPositional == 3
EvalCallKeywords == {"outputs_dir", "iterations", "device"}

\* Python binds the arguments of a call before the body runs: a keyword that
\* names no parameter, a parameter given twice or a parameter left without a
\* value is a TypeError.
BindArguments(params, positional, keywords) ==
    LET names == {params[i] : i \in 1..Len(params)}
        byPosition == {params[i] : i \in 1..positional}
    IN  IF positional > Len(params) THEN "TypeError"
        ELSE IF \E k \in keywords : k \notin names THEN "TypeError"
        ELSE IF keywords \cap byPosition # {} THEN "TypeError"
        ELSE IF names # byPosition \cup keywords THEN "TypeError"
        ELSE "ok"

\* lines 15-58: line 31 ends in a comma, so logmel is a 1-tuple and line 33's
\* logmel.T raises AttributeError on the first validation batch.
EvalBody(validate_batches) ==
    IF validate_batches > 0 THEN "AttributeError" ELSE "returned"

EvalCall(validate_batches) ==
    IF BindArguments(EvalParameters, EvalCallPositional, EvalCallKeywords) # "ok"
    THEN "TypeError"
    ELSE EvalBody(validate_batches)

IdleTrain ==
    /\ num_steps = 0 /\ gen_len = 0 /\ val_len = 0 /\ ckpt_dir_exists = FALSE
    /\ iterations = 0 /\ optimizer_steps = 0 /\ lr = None /\ checkpoints = {}
    /\ eval_calls = {} /\ train_error = None /\ pcTrain = "idle"

InitTrainVars ==
    /\ num_steps \in 1..MaxSteps
    /\ gen_len \in 0..MaxSteps
    /\ val_len \in 0..1
    /\ ckpt_dir_exists \in BOOLEAN
    /\ iterations = 0
    /\ optimizer_steps = 0
    /\ lr = None
    /\ checkpoints = {}
    /\ eval_calls = {}
    /\ train_error = None
    /\ pcTrain = "call"

\* lines 62-66: os.makedirs without exist_ok raises if the directory exists
train_call ==
    /\ pcTrain = "call"
    /\ IF ckpt_dir_exists
       THEN /\ pcTrain' = "raised"
            /\ train_error' = "FileExistsError"
            /\ UNCHANGED <<ckpt_dir_exists, lr>>
       ELSE /\ ckpt_dir_exists' = TRUE
            /\ lr' = Rat(1, 1000)
            /\ pcTrain' = "loop"
            /\ UNCHANGED train_error
    /\ UNCHANGED <<num_steps, gen_len, val_len, iterations, optimizer_steps,
                   checkpoints, eval_calls>>
    /\ UNCHANGED <<audioVars, stftVars, statsVars, preVars>>

\* lines 67-99: one turn of the for loop over generate_train()
train_iteration ==
    /\ pcTrain = "loop"
    /\ iterations < gen_len
    /\ LET it == iterations + 1
           evalResult == IF it % EvalEvery = 0 THEN EvalCall(val_len) ELSE "skipped"
       IN  /\ optimizer_steps' = optimizer_steps + 1
           /\ iterations' = it
           /\ IF evalResult \in {"TypeError", "AttributeError"}
              THEN /\ pcTrain' = "raised"
                   /\ train_error' = evalResult
                   /\ UNCHANGED <<lr, checkpoints, eval_calls>>
              ELSE /\ eval_calls' = IF evalResult = "returned"
                                    THEN eval_calls \cup {it} ELSE eval_calls
                   /\ lr' = IF it % CheckpointEvery = 0
                            THEN RMul(lr, Rat(95, 100)) ELSE lr
                   /\ checkpoints' = IF it % CheckpointEvery = 0
                                     THEN checkpoints \cup {it} ELSE checkpoints
                   /\ pcTrain' = IF it = num_steps THEN "returned" ELSE "loop"
                   /\ UNCHANGED train_error
    /\ UNCHANGED <<num_steps, gen_len, val_len, ckpt_dir_exists>>
    /\ UNCHANGED <<audioVars, stftVars, statsVars, preVars>>

\* line 67: generate_train() is exhausted and the for loop ends
train_exhausted ==
    /\ pcTrain = "loop"
    /\ iterations >= gen_len
    /\ pcTrain' = "returned"
    /\ UNCHANGED <<num_steps, gen_len, val_len, ckpt_dir_exists, iterations,
                   optimizer_steps, lr, checkpoints, eval_calls, train_error>>
    /\ UNCHANGED <<audioVars, stftVars, statsVars, preVars>>

(***************************************************************************)
(* The specifications.                                                     *)
(***************************************************************************)
InitAudio == InitAudioVars /\ IdleStft /\ IdleStats /\ IdlePre /\ IdleTrain
NextAudio == read_multichannel_audio
SpecAudio == InitAudio /\ [][NextAudio]_vars

InitStft == IdleAudio /\ InitStftVars /\ IdleStats /\ IdlePre /\ IdleTrain
NextStft == multichannel_stft
SpecStft == InitStft /\ [][NextStft]_vars

InitStats == IdleAudio /\ IdleStft /\ InitStatsVars /\ IdlePre /\ IdleTrain
NextStats == concatenate_features \/ calculate_scalar_of_tensor
SpecStats == InitStats /\ [][NextStats]_vars

InitPre == IdleAudio /\ IdleStft /\ IdleStats /\ InitPreVars /\ IdleTrain
NextPre ==
    \/ preprocess_data_call
    \/ process_file
    \/ write_statistics
    \/ analyze_data_sample
    \/ interrupt
SpecPre == InitPre /\ [][NextPre]_vars

\* A running preprocess_data takes its next step, and a stopped run is run
\* again.
RunSteps == process_file \/ write_statistics \/ analyze_data_sample
Rerun == pcPre = "stopped" /\ preprocess_data_call
LiveSpecPre ==
    InitPre /\ [][NextPre]_vars /\ WF_vars(RunSteps) /\ WF_vars(Rerun)

InitTrain == IdleAudio /\ IdleStft /\ IdleStats /\ IdlePre /\ InitTrainVars
NextTrain == train_call \/ train_iteration \/ train_exhausted
SpecTrain == InitTrain /\ [][NextTrain]_vars

(***************************************************************************)
(* Properties of read_multichannel_audio (SpecAudio).                      *)
(***************************************************************************)

\* the mean of the source channels at sample i
SourceMean(i) == Rat(NatSum(audio_file.frames[i]), audio_file.channels)

\* C1: whatever the channel count of the source, and with or without
\* resampling, the returned array is 2-D with exactly cfg.audio_channels
\* channels (shape[1] == cfg.audio_channels), in every row.
C1_ChannelCount ==
    pcAudio = "returned" =>
        /\ Len(multichannel_audio.shape) = 2
        /\ multichannel_audio.shape[2] = audio_channels
        /\ Len(multichannel_audio.data) = multichannel_audio.shape[1]
        /\ \A i \in 1..multichannel_audio.shape[1] :
              Len(multichannel_audio.data[i]) = audio_channels

\* a mono (1-D) source, three channels configured, resampled
C1_Witness ==
    /\ pcAudio = "returned"
    /\ audio_file.channels = 1
    /\ audio_channels = 3
    /\ resample_calls > 0
    /\ multichannel_audio.shape[1] > Len(audio_file.frames)

\* C2: with fewer source channels than cfg.audio_channels every channel of
\* the array is the per-sample mean of the source channels (a mono source is
\* replicated unchanged), and the returned array has identical channels; with
\* more source channels and cfg.audio_channels > 1 the first
\* cfg.audio_channels source channels are kept in order.
C2_ExpandAndTruncate ==
    pcAudio = "returned" =>
        /\ normalized_audio.shape = <<Len(audio_file.frames), audio_channels>>
        /\ audio_file.channels < audio_channels =>
              /\ \A i \in 1..Len(audio_file.frames), c \in 1..audio_channels :
                    /\ normalized_audio.data[i][c] = SourceMean(i)
                    /\ audio_file.channels = 1 =>
                          normalized_audio.data[i][c] = IntR(audio_file.frames[i][1])
              /\ \A i \in 1..multichannel_audio.shape[1], c \in 1..audio_channels :
                    multichannel_audio.data[i][c] = multichannel_audio.data[i][1]
              /\ resample_calls = 0 => multichannel_audio = normalized_audio
        /\ (audio_file.channels > audio_channels /\ audio_channels > 1) =>
              /\ \A i \in 1..Len(audio_file.frames), c \in 1..audio_channels :
                    normalized_audio.data[i][c] = IntR(audio_file.frames[i][c])
              /\ resample_calls = 0 => multichannel_audio = normalized_audio

\* two source channels that differ, expanded to three
C2_Witness ==
    /\ pcAudio = "returned"
    /\ audio_file.channels = 2
    /\ audio_channels = 3
    /\ Len(audio_file.frames) > 0
    /\ audio_file.frames[1][1] # audio_file.frames[1][2]
    /\ multichannel_audio.data[1] = <<Rat(1, 2), Rat(1, 2), Rat(1, 2)>>

\* C3: with target_fs None or equal to the file's sample rate the resampler
\* is never invoked and the returned array is the channel-normalized array,
\* sample count and values unchanged.
C3_NoResampleIsIdentity ==
    (pcAudio # "call" /\ (target_fs = NoRate \/ target_fs = <<audio_file.sample_rate>>)) =>
        /\ pcAudio = "returned"
        /\ resample_calls = 0
        /\ multichannel_audio.shape[1] = Len(audio_file.frames)
        /\ multichannel_audio = normalized_audio

\* a target rate that is the file's rate, on a file with samples
C3_Witness ==
    /\ pcAudio = "returned"
    /\ target_fs = <<audio_file.sample_rate>>
    /\ Len(audio_file.frames) = 2
    /\ audio_file.channels = 2
    /\ audio_channels = 2

(***************************************************************************)
(* Properties of multichannel_stft (SpecStft).                             *)
(***************************************************************************)
\* C4 as stated: the frame count is ceil(num_samples / hop_size) for every
\* num_samples >= 1, exact multiples of hop_size included.
C4_FramesAreCeil ==
    (pcStft # "call" /\ num_samples >= 1) =>
        /\ pcStft = "returned"
        /\ stft_frames = CeilDiv(num_samples, hop_size)

\* C4, amended: the frame count is 1 + floor((num_samples - NFFT % 2) / hop_size).
\* For an even NFFT that is 1 + floor(num_samples / hop_size): the ceiling when
\* num_samples is no multiple of hop_size and one more than it when it is.
\* For an odd NFFT it is the ceiling.  There is always at least one frame.
C4_FrameCount ==
    (pcStft # "call" /\ num_samples >= 1) =>
        /\ pcStft = "returned"
        /\ stft_frames = 1 + ((num_samples - (NFFT % 2)) \div hop_size)
        /\ stft_frames >= 1
        /\ (NFFT % 2 = 0 /\ num_samples % hop_size # 0) =>
              stft_frames = CeilDiv(num_samples, hop_size)
        /\ (NFFT % 2 = 0 /\ num_samples % hop_size = 0) =>
              stft_frames = CeilDiv(num_samples, hop_size) + 1
        /\ NFFT % 2 = 1 => stft_frames = CeilDiv(num_samples, hop_size)

\* a signal shorter than one frame whose length is a multiple of the hop
C4_Witness ==
    /\ pcStft = "returned"
    /\ NFFT % 2 = 0
    /\ num_samples >= 1
    /\ num_samples < frame_size
    /\ hop_size > 1
    /\ num_samples % hop_size = 0
    /\ stft_frames = 2

(***************************************************************************)
(* Properties of calculate_scalar_of_tensor (SpecStats).                   *)
(***************************************************************************)
\* one file's accumulator for mel bin m: the sum of the p-th powers of its
\* values over channels and frames
FilePowerSum(f, m, p) ==
    NatSum([k \in 1..(f.shape[1] * f.shape[2]) |->
            LET v == f.val[<<((k - 1) \div f.shape[2]) + 1,
                             ((k - 1) % f.shape[2]) + 1, m>>]
            IN  IF p = 1 THEN v ELSE v * v])

FileCount(f) == f.shape[1] * f.shape[2]

\* the accumulators of the files merged by addition
MergedSum(list, m, p) == NatSum([i \in 1..Len(list) |-> FilePowerSum(list[i], m, p)])
MergedCount(list) == NatSum([i \in 1..Len(list) |-> FileCount(list[i])])

\* mean = S / N and std = sqrt(Q / N - (S / N) ** 2) from the merged accumulators
MergedStatistics(list) ==
    LET n == MergedCount(list)
        bins == Indices(<<list[1].shape[3]>>)
    IN  [mean |-> [shape |-> <<list[1].shape[3]>>,
                   val |-> [o \in bins |-> Rat(MergedSum(list, o[1], 1), n)]],
         std |-> [shape |-> <<list[1].shape[3]>>,
                  val |-> [o \in bins |->
                             [sqrt |-> Rat(n * MergedSum(list, o[1], 2)
                                           - MergedSum(list, o[1], 1)
                                             * MergedSum(list, o[1], 1),
                                           n * n)]]]]

FileOrders(n) == {p \in [1..n -> 1..n] : \A i, j \in 1..n : p[i] = p[j] => i = j}

\* C5: the statistics of the concatenation of N files equal the statistics
\* from the merged per-file (sum, sum of squares, count) accumulators, and are
\* the same for every order of the files.
C5_ConcatenationEqualsMerge ==
    (pcStats = "done" /\ feature_list # <<>>) =>
        /\ scalar = MergedStatistics(feature_list)
        /\ \A p \in FileOrders(Len(feature_list)) :
              CalculateScalarOfTensor(
                  ConcatenateAxis1([i \in 1..Len(feature_list) |-> feature_list[p[i]]]))
              = scalar

\* two different files of different lengths
C5_Witness ==
    /\ pcStats = "done"
    /\ Len(feature_list) = 2
    /\ feature_list[1].shape[2] # feature_list[2].shape[2]
    /\ scalar.mean.val[<<1>>] = Rat(5, 6)

\* C6 as stated: for 3-D input one value for each (channel, mel bin) pair, for
\* 2-D input one value per mel bin.
C6_PerChannelAndMelBin ==
    pcStats = "done" =>
        IF Len(x.shape) = 3
        THEN /\ scalar.mean.shape = <<x.shape[1], x.shape[3]>>
             /\ scalar.std.shape = <<x.shape[1], x.shape[3]>>
        ELSE /\ scalar.mean.shape = <<x.shape[2]>>
             /\ scalar.std.shape = <<x.shape[2]>>

\* C6, amended: mean and std hold one value per mel bin for 2-D and for 3-D
\* input; for 3-D input the channel axis is reduced together with the time
\* axis, so each value is taken over all channels and all frames.
C6_PerMelBin ==
    pcStats = "done" =>
        LET ndim == Len(x.shape)
            bins == x.shape[ndim]
        IN  /\ scalar.mean.shape = <<bins>>
            /\ scalar.std.shape = <<bins>>
            /\ DOMAIN scalar.mean.val = {<<m>> : m \in 1..bins}
            /\ DOMAIN scalar.std.val = {<<m>> : m \in 1..bins}
            /\ ndim = 3 =>
                  \A m \in 1..bins :
                     scalar.mean.val[<<m>>] =
                        Rat(FilePowerSum(x, m, 1), x.shape[1] * x.shape[2])
            /\ ndim = 2 =>
                  \A m \in 1..bins :
                     scalar.mean.val[<<m>>] =
                        Rat(NatSum([t \in 1..x.shape[1] |-> x.val[<<t, m>>]]), x.shape[1])

\* a 3-D input of two channels that differ
C6_Witness ==
    /\ pcStats = "done"
    /\ Len(x.shape) = 3
    /\ x.shape[1] = 2
    /\ x.shape[2] = 2
    /\ x.val[<<1, 1, 1>>] # x.val[<<2, 1, 1>>]

(***************************************************************************)
(* Properties of preprocess_data (SpecPre, LiveSpecPre).                   *)
(***************************************************************************)
EntryKeys == {OutputPath(audio_path_and_labels[i].audio_name) :
                 i \in 1..Len(audio_path_and_labels)}

\* the last tuple of the input list written at this key
LastEntryAt(key) ==
    LET at == {i \in 1..Len(audio_path_and_labels) :
                  OutputPath(audio_path_and_labels[i].audio_name) = key}
    IN  audio_path_and_labels[CHOOSE i \in at : \A j \in at : j <= i]

IsProcessed(entry) == FeatureOutcome(entry.audio_path) = "ok"

FeaturesOf(list) == [i \in 1..Len(list) |-> FeatureOfPath(list[i].audio_path)]

\* C7: after a successful run every source file of the input list has a
\* record of its own, holding its own features and labels, at the key of its
\* audio_name, one record per source file.
C7_OneRecordPerSourceFile ==
    pcPre = "done" =>
        /\ \A i \in 1..Len(audio_path_and_labels) :
              store[OutputPath(audio_path_and_labels[i].audio_name)]
                 = RecordOf(audio_path_and_labels[i])
        /\ Cardinality(written \ {output_mean_std_file})
              = Cardinality({audio_path_and_labels[i].audio_path :
                                i \in 1..Len(audio_path_and_labels)})

\* What a successful run leaves: one record per distinct audio_name of the
\* input list, holding the features and labels of the last tuple of the list
\* with that name; a record that was there before is replaced and every other
\* file is left as it was.
RecordsAreKeyedByName ==
    pcPre = "done" =>
        /\ written = EntryKeys \cup {output_mean_std_file}
        /\ \A k \in StoreKeys :
              store[k] = IF k = output_mean_std_file
                         THEN MergedStatistics(FeaturesOf(audio_path_and_labels))
                         ELSE IF k \in EntryKeys THEN RecordOf(LastEntryAt(k))
                         ELSE store0[k]

\* C8: when a file of the input list fails, the batch goes on with the other
\* files; the run ends normally, all_features holds the features of exactly
\* the files that were processed, each of them has its record, and the
\* statistics record is written over exactly those files.
C8_FailureIsContained ==
    LET good == SelectSeq(audio_path_and_labels, IsProcessed)
    IN  (/\ pcPre \in {"done", "raised"}
         /\ good # <<>>
         /\ Len(good) < Len(audio_path_and_labels)) =>
            /\ pcPre = "done"
            /\ all_features = FeaturesOf(good)
            /\ \A i \in 1..Len(good) : OutputPath(good[i].audio_name) \in written
            /\ output_mean_std_file \in written
            /\ store[output_mean_std_file] = StatisticsOf(FeaturesOf(good))

RECURSIVE RunFrom(_, _, _, _)
RunFrom(list, i, s, features) ==
    IF i > Len(list)
    THEN IF features = <<>>
         THEN [pc |-> "raised", store |-> s]
         ELSE [pc |-> "done",
               store |-> [s EXCEPT ![output_mean_std_file] = StatisticsOf(features)]]
    ELSE IF ~IsProcessed(list[i])
    THEN [pc |-> "raised", store |-> s]
    ELSE RunFrom(list, i + 1,
                 [s EXCEPT ![OutputPath(list[i].audio_name)] = RecordOf(list[i])],
                 Append(features, FeatureOfPath(list[i].audio_path)))

\* how one run that nothing stops ends, and the files it leaves
UninterruptedRun(list, s) == RunFrom(list, 1, s, <<>>)

\* a run that stopped inside the input list wrote the records of the tuples
\* before the stop, each one whole, and no statistics record
PartialRunLeavesWholeRecords ==
    (pcPre \in {"stopped", "raised"} /\ idx <= Len(audio_path_and_labels)) =>
        /\ output_mean_std_file \notin written
        /\ written = {OutputPath(audio_path_and_labels[i].audio_name) : i \in 1..(idx - 1)}
        /\ \A k \in written :
              \E i \in 1..(idx - 1) : store[k] = RecordOf(audio_path_and_labels[i])

\* the statistics record is written after every per-file record
StatisticsWrittenLast ==
    output_mean_std_file \in written =>
        /\ idx = Len(audio_path_and_labels) + 1
        /\ EntryKeys \subseteq written
        /\ \A k \in EntryKeys : store[k] = RecordOf(LastEntryAt(k))

RunEnded == pcPre \in {"done", "raised"}

C10_TrainRunsNumSteps ==
    (/\ pcTrain \in {"returned", "raised"}
     /\ gen_len >= num_steps
     /\ train_error # "FileExistsError") =>
        /\ pcTrain = "returned"
        /\ optimizer_steps = num_steps
        /\ eval_calls = {k \in 1..num_steps : k % EvalEvery = 0}
        /\ checkpoints = {k \in 1..num_steps : k % CheckpointEvery = 0}

====
